---- MODULE Spec2Model ----
(***************************************************************************)
(* DocumentAnalyzer of the Jyro language server: the line-oriented syntax  *)
(* check, the symbol extraction and the semantic validation, modelled on   *)
(* character strings.  A document is a string; every regular expression of *)
(* the analyzer is an operator that scans the characters the way the       *)
(* expression does.  Columns and line numbers are zero-based as in the     *)
(* source; string indices inside the helpers are one-based.                *)
(***************************************************************************)
EXTENDS Integers, Sequences, FiniteSets, TLC

VARIABLES
    text,          \* constructor argument: the raw document
    lines,         \* this.lines
    options,       \* this.options
    diagnostics,   \* this.diagnostics
    symbols,       \* this.symbols
    pc,            \* which pass of analyze()/getSymbols() is running
    call,          \* the public method in progress
    lineIndex,     \* forEach index of the running pass
    blockStack,    \* checkSyntax local
    inLoop,        \* checkSyntax local
    seenProps,     \* extractSymbols local
    declaredVars,  \* validateSemantics local
    callsLeft,     \* public calls the caller still makes
    returned       \* the last public call to return, and the array it returned

vars == <<text, lines, options, diagnostics, symbols, pc, call, lineIndex,
          blockStack, inLoop, seenProps, declaredVars, callsLeft, returned>>

-----------------------------------------------------------------------------
(* Characters and strings *)

Ch(s, i) == SubSeq(s, i, i)

MinOf(S) == CHOOSE x \in S : \A y \in S : x <= y

MaxOf(S) == CHOOSE x \in S : \A y \in S : x >= y

UpperSeq == "ABCDEFGHIJKLMNOPQRSTUVWXYZ"

LowerSeq == "abcdefghijklmnopqrstuvwxyz"

DigitSeq == "0123456789"

CharsOf(s) == {Ch(s, i) : i \in 1..Len(s)}

Upper == CharsOf(UpperSeq)

Lower == CharsOf(LowerSeq)

Digit == CharsOf(DigitSeq)

\* \w
WordChar == Upper \cup Lower \cup Digit \cup {"_"}

\* [a-zA-Z_]
IdentStart == Upper \cup Lower \cup {"_"}

\* [a-zA-Z0-9]
AlnumChar == Upper \cup Lower \cup Digit

\* \s, and the characters String.prototype.trim removes
Space == {" ", "\t", "\r", "\n"}

IsWord(s, i) == i >= 1 /\ i <= Len(s) /\ Ch(s, i) \in WordChar

\* \b in front of the character at index i (i = Len(s) + 1: at the end)
WordBoundary(s, i) == IsWord(s, i - 1) # IsWord(s, i)

\* first index >= i whose character is not in class (Len(s) + 1 if none)
RunEnd(s, i, class) ==
    LET stop == {j \in i..Len(s) : Ch(s, j) \notin class}
    IN  IF stop = {} THEN Len(s) + 1 ELSE MinOf(stop)

TrimStart(s) == SubSeq(s, RunEnd(s, 1, Space), Len(s))

Trim(s) ==
    LET keep == {j \in 1..Len(s) : Ch(s, j) \notin Space}
    IN  IF keep = {} THEN "" ELSE SubSeq(s, MinOf(keep), MaxOf(keep))

StartsWith(s, prefix) ==
    Len(s) >= Len(prefix) /\ SubSeq(s, 1, Len(prefix)) = prefix

\* String.prototype.indexOf(sub, from): zero-based, -1 when absent
IndexOf(s, sub, from) ==
    LET hits == {i \in from..(Len(s) - Len(sub)) :
                    SubSeq(s, i + 1, i + Len(sub)) = sub}
    IN  IF hits = {} THEN -1 ELSE MinOf(hits)

Includes(s, sub) == IndexOf(s, sub, 0) # -1

LowerCh(c) ==
    IF c \in Upper
    THEN Ch(LowerSeq, CHOOSE i \in 1..Len(UpperSeq) : Ch(UpperSeq, i) = c)
    ELSE c

RECURSIVE ToLowerFrom(_, _)
ToLowerFrom(s, i) ==
    IF i > Len(s) THEN "" ELSE LowerCh(Ch(s, i)) \o ToLowerFrom(s, i + 1)

ToLowerCase(s) == ToLowerFrom(s, 1)

\* (s.match(/"/g) || []).length
QuoteCount(s) == Cardinality({i \in 1..Len(s) : Ch(s, i) = "\""})

\* s.replace(/#.*$/, '')
StripComment(s) ==
    LET k == IndexOf(s, "#", 0)
    IN  IF k = -1 THEN s ELSE SubSeq(s, 1, k)

\* s.replace(/"[^"]*"/g, '""') from index i on
RECURSIVE StripStringsFrom(_, _)
StripStringsFrom(s, i) ==
    LET open == IndexOf(s, "\"", i - 1)
        close == IF open = -1 THEN -1 ELSE IndexOf(s, "\"", open + 1)
    IN  IF close = -1
        THEN SubSeq(s, i, Len(s))
        ELSE SubSeq(s, i, open) \o "\"\"" \o StripStringsFrom(s, close + 2)

StripStrings(s) == StripStringsFrom(s, 1)

\* the literal kw at index i with \b on both sides
KeywordAt(s, i, kw) ==
    /\ i + Len(kw) - 1 <= Len(s)
    /\ SubSeq(s, i, i + Len(kw) - 1) = kw
    /\ WordBoundary(s, i)
    /\ WordBoundary(s, i + Len(kw))

\* /\bkw\b/.test(s)
HasKeyword(s, kw) == \E i \in 1..Len(s) : KeywordAt(s, i, kw)

-----------------------------------------------------------------------------
(* Tables of the analyzer *)

keywords ==
    {"var", "if", "then", "else", "elseif", "end", "switch", "do", "case",
     "default", "while", "foreach", "in", "return", "fail", "break",
     "continue", "true", "false", "null", "and", "or", "not", "is", "Data"}

typeKeywords == {"number", "string", "boolean", "object", "array"}

\* STDLIB_FUNCTIONS.map(f => f.name)
getAllFunctionNames ==
    {"Upper", "Lower", "Trim", "Replace", "Contains", "StartsWith", "EndsWith",
     "Split", "Join", "ToNumber", "RandomString", "Length", "First", "Last",
     "Append", "Pop", "IndexOf", "Insert", "RemoveAt", "RemoveLast", "Clear",
     "Filter", "CountIf", "Sort", "SortByField", "Reverse", "MergeArrays",
     "Take", "GroupBy", "RandomChoice", "Min", "Max", "Sum", "Average",
     "Median", "Mode", "Abs", "Round", "RandomInt", "Now", "Today",
     "ParseDate", "FormatDate", "DateAdd", "DateDiff", "DatePart", "TypeOf",
     "IsNull", "Exists", "Equal", "NotEqual", "Base64Encode", "Base64Decode",
     "NewGuid", "CallScript", "Keys", "InvokeRestMethod"}

functionNames == getAllFunctionNames

blockKeywords == {"if", "while", "foreach", "switch"}

loopKeywords == {"while", "foreach"}

\* text.split('\n').map(line => line.replace(/\r$/, ''))
RECURSIVE SplitFrom(_, _)
SplitFrom(s, i) ==
    LET nl == IndexOf(s, "\n", i - 1)
        raw == IF nl = -1 THEN SubSeq(s, i, Len(s)) ELSE SubSeq(s, i, nl)
        line == IF Len(raw) > 0 /\ Ch(raw, Len(raw)) = "\r"
                THEN SubSeq(raw, 1, Len(raw) - 1) ELSE raw
    IN  IF nl = -1 THEN <<line>> ELSE <<line>> \o SplitFrom(s, nl + 2)

SplitLines(s) == SplitFrom(s, 1)

\* addDiagnostic's pushed object
Diagnostic(startLine, startChar, endLine, endChar, message, severity) ==
    [severity |-> severity,
     range |-> [start |-> [line |-> startLine, character |-> startChar],
                end |-> [line |-> endLine, character |-> endChar]],
     message |-> message,
     source |-> "jyro"]

\* the test that makes a pass skip a line: comment line or empty line
SkipLine(trimmed) == StartsWith(trimmed, "#") \/ Len(trimmed) = 0

-----------------------------------------------------------------------------
(* checkSyntax, one line *)

\* trimmedWithoutStrings of a line
TrimmedWithoutStrings(line) == StripStrings(StripComment(Trim(line)))

\* UnclosedStringDiags counting the quotes of the comment-stripped line
UnclosedStringDiags_Stripped(line, idx) ==
    IF QuoteCount(StripComment(Trim(line))) % 2 # 0
    THEN <<Diagnostic(idx, 0, idx, Len(line), "Unclosed string literal", "Error")>>
    ELSE <<>>

\* the unclosed-string check
UnclosedStringDiags(line, idx) ==
    IF QuoteCount(line) % 2 # 0
    THEN <<Diagnostic(idx, 0, idx, Len(line), "Unclosed string literal", "Error")>>
    ELSE <<>>

\* no line counts as a continuation
StartsWithElseif_Never(trimmed) == FALSE

\* /^\s*elseif\b/i.test(trimmed)
StartsWithElseif(trimmed) ==
    LET p == RunEnd(trimmed, 1, Space)
    IN  /\ p + 5 <= Len(trimmed)
        /\ ToLowerCase(SubSeq(trimmed, p, p + 5)) = "elseif"
        /\ WordBoundary(trimmed, p + 6)

\* trimmedWithoutStrings.match(/\b(if|while|foreach|switch)\b/): match[1], "" if null
BlockOpenerMatch(tws) ==
    LET hits == {i \in 1..Len(tws) : \E kw \in blockKeywords : KeywordAt(tws, i, kw)}
    IN  IF hits = {} THEN ""
        ELSE CHOOSE kw \in blockKeywords : KeywordAt(tws, MinOf(hits), kw)

\* the block type the line pushes, "" if it pushes none
PushedBlock(trimmed, tws) ==
    IF ~StartsWithElseif(trimmed) THEN BlockOpenerMatch(tws) ELSE ""

\* blockStack after the opener test of a line
StackAfterOpen(stack, trimmed, tws, idx) ==
    IF PushedBlock(trimmed, tws) # ""
    THEN Append(stack, [type |-> PushedBlock(trimmed, tws), line |-> idx])
    ELSE stack

\* LoopAfterOpen counting every opener
LoopAfterOpen_AnyBlock(loop, trimmed, tws) ==
    IF PushedBlock(trimmed, tws) # "" THEN loop + 1 ELSE loop

\* inLoop after the opener test of a line
LoopAfterOpen(loop, trimmed, tws) ==
    IF PushedBlock(trimmed, tws) \in loopKeywords THEN loop + 1 ELSE loop

\* /\bend\b/.test(trimmedWithoutStrings)
HasEnd(tws) == HasKeyword(tws, "end")

UnexpectedEndDiags(stack, trimmed, tws, idx) ==
    IF HasEnd(tws) /\ Len(stack) = 0
    THEN <<Diagnostic(idx, 0, idx, Len(trimmed),
                      "Unexpected \"end\" without matching block start", "Error")>>
    ELSE <<>>

\* blockStack after the end test of a line
StackAfterEnd(stack, tws) ==
    IF HasEnd(tws) /\ Len(stack) > 0 THEN SubSeq(stack, 1, Len(stack) - 1) ELSE stack

\* LoopAfterEnd without the empty-stack guard: every end decrements
LoopAfterEnd_Unguarded(stack, loop, tws) ==
    IF HasEnd(tws) THEN loop - 1 ELSE loop

\* inLoop after the end test of a line
LoopAfterEnd(stack, loop, tws) ==
    IF HasEnd(tws) /\ Len(stack) > 0 /\ stack[Len(stack)].type \in loopKeywords
    THEN loop - 1 ELSE loop

\* /\b(break|continue)\b/.test(trimmedWithoutStrings)
HasLoopControl(tws) == HasKeyword(tws, "break") \/ HasKeyword(tws, "continue")

LoopControlDiags(loop, trimmed, tws, idx) ==
    IF HasLoopControl(tws) /\ loop = 0
    THEN <<Diagnostic(idx, 0, idx, Len(trimmed),
                      "\"" \o (IF Includes(tws, "break") THEN "break" ELSE "continue")
                           \o "\" can only be used inside loops",
                      "Error")>>
    ELSE <<>>

\* trimmed.match(/^var\s+\w+\s*:\s*(\w+)/): match[1], "" if null
TypeAnnotMatch(trimmed) ==
    LET n == Len(trimmed)
        a == RunEnd(trimmed, 4, Space)        \* after var\s+
        b == RunEnd(trimmed, a, WordChar)     \* after \w+
        c == RunEnd(trimmed, b, Space)        \* at the colon
        d == RunEnd(trimmed, c + 1, Space)    \* at the type
        e == RunEnd(trimmed, d, WordChar)     \* after the type
    IN  IF /\ StartsWith(trimmed, "var")
           /\ a > 4
           /\ b > a
           /\ c <= n /\ Ch(trimmed, c) = ":"
           /\ e > d
        THEN SubSeq(trimmed, d, e - 1)
        ELSE ""

\* /^\s*var\s+/.test(trimmed)
StartsWithVar(trimmed) ==
    LET p == RunEnd(trimmed, 1, Space)
    IN  /\ p + 3 <= Len(trimmed)
        /\ SubSeq(trimmed, p, p + 2) = "var"
        /\ Ch(trimmed, p + 3) \in Space

\* column the Unknown type diagnostic starts at
\* the search for the type name fails
TypeAnnotPos_NotFound(line, typeName) == 0 - 1

TypeAnnotPos(line, typeName) == IndexOf(line, typeName, 0)

UnknownTypeDiags(line, trimmed, idx) ==
    LET t == TypeAnnotMatch(trimmed)
        pos == TypeAnnotPos(line, t)
    IN  IF StartsWithVar(trimmed) /\ t # "" /\ t \notin typeKeywords
        THEN <<Diagnostic(idx, pos, idx, pos + Len(t),
                          "Unknown type \"" \o t
                              \o "\". Expected: number, string, boolean, object, or array",
                          "Error")>>
        ELSE <<>>

\* the matches of /\b([A-Z][a-zA-Z0-9]*)\s*\(/g from index i on: <<name, index>>
RECURSIVE FuncCallMatches(_, _)
FuncCallMatches(s, i) ==
    LET IsMatch(p) ==
            /\ Ch(s, p) \in Upper
            /\ WordBoundary(s, p)
            /\ LET q == RunEnd(s, RunEnd(s, p + 1, AlnumChar), Space)
               IN  q <= Len(s) /\ Ch(s, q) = "("
        hits == {p \in i..Len(s) : IsMatch(p)}
    IN  IF hits = {} THEN <<>>
        ELSE LET p == MinOf(hits)
                 e == RunEnd(s, p + 1, AlnumChar)
                 q == RunEnd(s, e, Space)
             IN  <<[name |-> SubSeq(s, p, e - 1), index |-> p - 1]>>
                     \o FuncCallMatches(s, q + 1)

\* IsHostFunction looking the registry up without regard to case
IsHostFunction_IgnoreCase(funcName) ==
    /\ funcName \notin keywords
    /\ ~\E f \in functionNames : ToLowerCase(f) = ToLowerCase(funcName)

\* whether the host function check reports funcName
IsHostFunction(funcName) ==
    funcName \notin keywords /\ funcName \notin functionNames

RECURSIVE HostFunctionDiagsOf(_, _, _)
HostFunctionDiagsOf(matches, line, idx) ==
    IF matches = <<>> THEN <<>>
    ELSE LET m == Head(matches)
             leadingWhitespace == Len(line) - Len(TrimStart(line))
             pos == leadingWhitespace + m.index
             here == IF IsHostFunction(m.name)
                     THEN <<Diagnostic(idx, pos, idx, pos + Len(m.name),
                                "Referenced function \"" \o m.name
                                    \o "\" will need to be made available at runtime",
                                "Information")>>
                     ELSE <<>>
         IN  here \o HostFunctionDiagsOf(Tail(matches), line, idx)

HostFunctionDiags(warn, line, tws, idx) ==
    IF warn THEN HostFunctionDiagsOf(FuncCallMatches(tws, 1), line, idx) ELSE <<>>

\* the body of checkSyntax's forEach: [blockStack, inLoop, diagnostics] after the line
CheckSyntaxLine(stack, loop, diags, line, idx, warn) ==
    LET trimmed == Trim(line)
        tws == TrimmedWithoutStrings(line)
        stack1 == StackAfterOpen(stack, trimmed, tws, idx)
        loop1 == LoopAfterOpen(loop, trimmed, tws)
        stack2 == StackAfterEnd(stack1, tws)
        loop2 == LoopAfterEnd(stack1, loop1, tws)
    IN  IF SkipLine(trimmed)
        THEN [blockStack |-> stack, inLoop |-> loop, diagnostics |-> diags]
        ELSE [blockStack |-> stack2,
              inLoop |-> loop2,
              diagnostics |->
                  diags \o UnclosedStringDiags(line, idx)
                        \o UnexpectedEndDiags(stack1, trimmed, tws, idx)
                        \o LoopControlDiags(loop2, trimmed, tws, idx)
                        \o UnknownTypeDiags(line, trimmed, idx)
                        \o HostFunctionDiags(warn, line, tws, idx)]

\* UnclosedBlockDiags reporting the outermost open block instead of the innermost
UnclosedBlockDiags_Outermost(stack, ls) ==
    IF Len(stack) > 0
    THEN LET unclosed == stack[1]
         IN  <<Diagnostic(unclosed.line, 0, unclosed.line, Len(ls[unclosed.line + 1]),
                          "Unclosed \"" \o unclosed.type \o "\" block - missing \"end\"",
                          "Error")>>
    ELSE <<>>

\* the check after the forEach: the unclosed block
UnclosedBlockDiags(stack, ls) ==
    IF Len(stack) > 0
    THEN LET unclosed == stack[Len(stack)]
         IN  <<Diagnostic(unclosed.line, 0, unclosed.line, Len(ls[unclosed.line + 1]),
                          "Unclosed \"" \o unclosed.type \o "\" block - missing \"end\"",
                          "Error")>>
    ELSE <<>>

-----------------------------------------------------------------------------
(* extractSymbols, one line *)

\* type of a symbol declared without annotation (varMatch[2] undefined)
Undefined == ""

SymbolInfo(name, type, line, character) ==
    [name |-> name, type |-> type, line |-> line, character |-> character]

\* the matches of /\bvar\s+(\w+)(?:\s*:\s*(\w+))?/g from index i on:
\* <<name, type, index>>
RECURSIVE VarMatches(_, _)
VarMatches(s, i) ==
    LET NameAt(p) == RunEnd(s, p + 3, Space)
        IsMatch(p) ==
            /\ p + 2 <= Len(s)
            /\ SubSeq(s, p, p + 2) = "var"
            /\ WordBoundary(s, p)
            /\ NameAt(p) > p + 3
            /\ IsWord(s, NameAt(p))
        hits == {p \in i..Len(s) : IsMatch(p)}
    IN  IF hits = {} THEN <<>>
        ELSE LET p == MinOf(hits)
                 a == NameAt(p)
                 b == RunEnd(s, a, WordChar)
                 c == RunEnd(s, b, Space)
                 d == RunEnd(s, c + 1, Space)
                 e == RunEnd(s, d, WordChar)
                 typed == c <= Len(s) /\ Ch(s, c) = ":" /\ e > d
             IN  <<[name |-> SubSeq(s, a, b - 1),
                    type |-> IF typed THEN SubSeq(s, d, e - 1) ELSE Undefined,
                    index |-> p - 1]>>
                     \o VarMatches(s, IF typed THEN e ELSE b)

\* column recorded for a var symbol
VarSymbolPos(line, varName, matchIndex) == IndexOf(line, varName, matchIndex)

RECURSIVE VarSymbolsOf(_, _, _)
VarSymbolsOf(matches, line, idx) ==
    IF matches = <<>> THEN <<>>
    ELSE LET m == Head(matches)
         IN  <<SymbolInfo(m.name, m.type, idx, VarSymbolPos(line, m.name, m.index))>>
                 \o VarSymbolsOf(Tail(matches), line, idx)

\* trimmed.match(/\bforeach\s+(\w+)\s+in\b/): match[1], "" if null
ForeachMatch(s) ==
    LET NameAt(p) == RunEnd(s, p + 7, Space)
        NameEnd(p) == RunEnd(s, NameAt(p), WordChar)
        InAt(p) == RunEnd(s, NameEnd(p), Space)
        IsMatch(p) ==
            /\ KeywordAt(s, p, "foreach")
            /\ NameAt(p) > p + 7
            /\ NameEnd(p) > NameAt(p)
            /\ InAt(p) > NameEnd(p)
            /\ InAt(p) + 1 <= Len(s)
            /\ SubSeq(s, InAt(p), InAt(p) + 1) = "in"
            /\ WordBoundary(s, InAt(p) + 2)
        hits == {p \in 1..Len(s) : IsMatch(p)}
    IN  IF hits = {} THEN ""
        ELSE SubSeq(s, NameAt(MinOf(hits)), NameEnd(MinOf(hits)) - 1)

\* column recorded for an iterator symbol
ForeachSymbolPos(line, varName) == IndexOf(line, varName, 0)

\* no iterator symbol is recorded
ForeachSymbols_None(line, trimmed, idx) == <<>>

ForeachSymbols(line, trimmed, idx) ==
    LET varName == ForeachMatch(trimmed)
    IN  IF varName # ""
        THEN <<SymbolInfo(varName, "iterator", idx, ForeachSymbolPos(line, varName))>>
        ELSE <<>>

\* end (exclusive) of [a-zA-Z_]\w*(?:\.[a-zA-Z_]\w*)* starting at p
RECURSIVE PathEnd(_, _)
PathEnd(s, e) ==
    IF e + 1 <= Len(s) /\ Ch(s, e) = "." /\ Ch(s, e + 1) \in IdentStart
    THEN PathEnd(s, RunEnd(s, e + 2, WordChar))
    ELSE e

\* the matches of /\b([a-zA-Z_]\w*(?:\.[a-zA-Z_]\w*)+)\s*=/g from index i on
RECURSIVE PropAssignMatches(_, _)
PropAssignMatches(s, i) ==
    LET WordEnd(p) == RunEnd(s, p + 1, WordChar)
        End(p) == PathEnd(s, WordEnd(p))
        EqAt(p) == RunEnd(s, End(p), Space)
        IsMatch(p) ==
            /\ Ch(s, p) \in IdentStart
            /\ WordBoundary(s, p)
            /\ End(p) > WordEnd(p)
            /\ EqAt(p) <= Len(s)
            /\ Ch(s, EqAt(p)) = "="
        hits == {p \in i..Len(s) : IsMatch(p)}
    IN  IF hits = {} THEN <<>>
        ELSE LET p == MinOf(hits)
             IN  <<SubSeq(s, p, End(p) - 1)>> \o PropAssignMatches(s, EqAt(p) + 1)

\* whether a matched property path is recorded
\* seenProps never consulted
IsNewProp_Always(seen, propPath) == TRUE

IsNewProp(seen, propPath) == propPath \notin seen

\* column recorded for a property symbol
PropSymbolPos(line, propPath) == IndexOf(line, propPath, 0)

\* the property loop of one line: [symbols, seenProps] after it
RECURSIVE PropSymbolsOf(_, _, _, _, _)
PropSymbolsOf(matches, syms, seen, line, idx) ==
    IF matches = <<>> THEN [symbols |-> syms, seenProps |-> seen]
    ELSE LET propPath == Head(matches)
         IN  IF IsNewProp(seen, propPath)
             THEN PropSymbolsOf(Tail(matches),
                      Append(syms, SymbolInfo(propPath, "property", idx,
                                              PropSymbolPos(line, propPath))),
                      seen \cup {propPath}, line, idx)
             ELSE PropSymbolsOf(Tail(matches), syms, seen, line, idx)

\* the body of extractSymbols' forEach: [symbols, seenProps] after the line
ExtractSymbolsLine(syms, seen, line, idx) ==
    LET trimmed == Trim(line)
    IN  IF SkipLine(trimmed)
        THEN [symbols |-> syms, seenProps |-> seen]
        ELSE PropSymbolsOf(PropAssignMatches(trimmed, 1),
                 syms \o VarSymbolsOf(VarMatches(trimmed, 1), line, idx)
                      \o ForeachSymbols(line, trimmed, idx),
                 seen, line, idx)

-----------------------------------------------------------------------------
(* validateSemantics, one line *)

\* new Set(this.symbols.map(s => s.name)) plus 'Data'
\* declaredVars without the symbol table
DeclaredVarsOf_DataOnly(syms) == {"Data"}

DeclaredVarsOf(syms) == {syms[k].name : k \in 1..Len(syms)} \cup {"Data"}

\* lineWithoutComments of a line
LineWithoutComments(line) == StripComment(StripStrings(line))

\* the matches of /\b([a-zA-Z_]\w*)\b/g from index i on: <<name, index>>
RECURSIVE IdentMatches(_, _)
IdentMatches(s, i) ==
    LET hits == {p \in i..Len(s) : Ch(s, p) \in IdentStart /\ WordBoundary(s, p)}
    IN  IF hits = {} THEN <<>>
        ELSE LET p == MinOf(hits)
                 e == RunEnd(s, p + 1, WordChar)
             IN  <<[name |-> SubSeq(s, p, e - 1), index |-> p - 1]>>
                     \o IdentMatches(s, e)

\* pos > 0 && lineWithoutComments[pos - 1] === '.'
IsPropertyAccess(s, pos) == pos > 0 /\ Ch(s, pos) = "."

\* lineWithoutComments.substring(endPos).match(/^\s*\(/)
IsCall(s, endPos) ==
    LET q == RunEnd(s, endPos + 1, Space)
    IN  q <= Len(s) /\ Ch(s, q) = "("

\* IsReserved comparing function names exactly
IsReserved_ExactCase(varName) ==
    \/ varName \in keywords
    \/ varName \in typeKeywords
    \/ varName \in functionNames

\* the keyword / type keyword / function name skip
IsReserved(varName) ==
    \/ varName \in keywords
    \/ varName \in typeKeywords
    \/ \E f \in functionNames : ToLowerCase(f) = ToLowerCase(varName)

\* whether the scan reports the token
IsUndefinedUse(s, m, declared) ==
    /\ ~IsPropertyAccess(s, m.index)
    /\ ~IsCall(s, m.index + Len(m.name))
    /\ ~IsReserved(m.name)
    /\ m.name \notin declared

RECURSIVE UndefinedVarDiagsOf(_, _, _, _)
UndefinedVarDiagsOf(matches, s, declared, idx) ==
    IF matches = <<>> THEN <<>>
    ELSE LET m == Head(matches)
             here == IF IsUndefinedUse(s, m, declared)
                     THEN <<Diagnostic(idx, m.index, idx, m.index + Len(m.name),
                                "Undefined variable \"" \o m.name \o "\"", "Warning")>>
                     ELSE <<>>
         IN  here \o UndefinedVarDiagsOf(Tail(matches), s, declared, idx)

\* the body of validateSemantics' forEach: the diagnostics the line adds
ValidateSemanticsLine(line, declared, idx) ==
    IF SkipLine(Trim(line)) THEN <<>>
    ELSE UndefinedVarDiagsOf(IdentMatches(LineWithoutComments(line), 1),
                             LineWithoutComments(line), declared, idx)

-----------------------------------------------------------------------------
(* The analyzer as a state machine: one step per line of each pass *)

\* new DocumentAnalyzer(text, uri, options)
Constructed(t, warn, calls) ==
    /\ text = t
    /\ lines = SplitLines(t)
    /\ options = [warnOnHostFunctions |-> warn]
    /\ diagnostics = <<>>
    /\ symbols = <<>>
    /\ pc = "idle"
    /\ call = "none"
    /\ lineIndex = 0
    /\ blockStack = <<>>
    /\ inLoop = 0
    /\ seenProps = {}
    /\ declaredVars = {}
    /\ callsLeft = calls
    /\ returned = [call |-> "none", value |-> <<>>]

\* analyze(): reset, enter checkSyntax
Analyze ==
    /\ pc = "idle"
    /\ callsLeft > 0
    /\ callsLeft' = callsLeft - 1
    /\ call' = "analyze"
    /\ diagnostics' = <<>>
    /\ symbols' = <<>>
    /\ blockStack' = <<>>
    /\ inLoop' = 0
    /\ lineIndex' = 0
    /\ pc' = "checkSyntax"
    /\ UNCHANGED <<text, lines, options, seenProps, declaredVars, returned>>

\* checkSyntax: one iteration of the forEach
CheckSyntaxStep ==
    /\ pc = "checkSyntax"
    /\ lineIndex < Len(lines)
    /\ LET r == CheckSyntaxLine(blockStack, inLoop, diagnostics,
                                lines[lineIndex + 1], lineIndex,
                                options.warnOnHostFunctions)
       IN  /\ blockStack' = r.blockStack
           /\ inLoop' = r.inLoop
           /\ diagnostics' = r.diagnostics
    /\ lineIndex' = lineIndex + 1
    /\ UNCHANGED <<text, lines, options, symbols, pc, call, seenProps,
                   declaredVars, callsLeft, returned>>

\* checkSyntax: the unclosed-block check; then extractSymbols begins
CheckSyntaxEnd ==
    /\ pc = "checkSyntax"
    /\ lineIndex = Len(lines)
    /\ diagnostics' = diagnostics \o UnclosedBlockDiags(blockStack, lines)
    /\ seenProps' = {}
    /\ lineIndex' = 0
    /\ pc' = "extractSymbols"
    /\ UNCHANGED <<text, lines, options, symbols, call, blockStack, inLoop,
                   declaredVars, callsLeft, returned>>

\* extractSymbols: one iteration of the forEach
ExtractSymbolsStep ==
    /\ pc = "extractSymbols"
    /\ lineIndex < Len(lines)
    /\ LET r == ExtractSymbolsLine(symbols, seenProps, lines[lineIndex + 1], lineIndex)
       IN  /\ symbols' = r.symbols
           /\ seenProps' = r.seenProps
    /\ lineIndex' = lineIndex + 1
    /\ UNCHANGED <<text, lines, options, diagnostics, pc, call, blockStack,
                   inLoop, declaredVars, callsLeft, returned>>

\* extractSymbols returns into analyze(); validateSemantics builds declaredVars
ExtractSymbolsEnd ==
    /\ pc = "extractSymbols"
    /\ call = "analyze"
    /\ lineIndex = Len(lines)
    /\ declaredVars' = DeclaredVarsOf(symbols)
    /\ lineIndex' = 0
    /\ pc' = "validateSemantics"
    /\ UNCHANGED <<text, lines, options, diagnostics, symbols, call, blockStack,
                   inLoop, seenProps, callsLeft, returned>>

\* validateSemantics: one iteration of the forEach
ValidateSemanticsStep ==
    /\ pc = "validateSemantics"
    /\ lineIndex < Len(lines)
    /\ diagnostics' = diagnostics
           \o ValidateSemanticsLine(lines[lineIndex + 1], declaredVars, lineIndex)
    /\ lineIndex' = lineIndex + 1
    /\ UNCHANGED <<text, lines, options, symbols, pc, call, blockStack, inLoop,
                   seenProps, declaredVars, callsLeft, returned>>

\* analyze() returns this.diagnostics
AnalyzeReturn ==
    /\ pc = "validateSemantics"
    /\ lineIndex = Len(lines)
    /\ pc' = "idle"
    /\ call' = "none"
    /\ returned' = [call |-> "analyze", value |-> diagnostics]
    /\ UNCHANGED <<text, lines, options, diagnostics, symbols, lineIndex,
                   blockStack, inLoop, seenProps, declaredVars, callsLeft>>

\* getSymbols() extracts every time, whatever the table holds
NeedsExtraction_Always(syms) == TRUE

\* this.symbols.length === 0
NeedsExtraction(syms) == Len(syms) = 0

\* getSymbols(): extractSymbols runs when the table is empty, otherwise
\* this.symbols is returned as it stands
GetSymbols ==
    /\ pc = "idle"
    /\ callsLeft > 0
    /\ callsLeft' = callsLeft - 1
    /\ IF NeedsExtraction(symbols)
       THEN /\ call' = "getSymbols"
            /\ seenProps' = {}
            /\ lineIndex' = 0
            /\ pc' = "extractSymbols"
            /\ UNCHANGED returned
       ELSE /\ returned' = [call |-> "getSymbols", value |-> symbols]
            /\ UNCHANGED <<call, seenProps, lineIndex, pc>>
    /\ UNCHANGED <<text, lines, options, diagnostics, symbols, blockStack,
                   inLoop, declaredVars>>

\* extractSymbols returns into getSymbols(), which returns this.symbols
GetSymbolsReturn ==
    /\ pc = "extractSymbols"
    /\ call = "getSymbols"
    /\ lineIndex = Len(lines)
    /\ pc' = "idle"
    /\ call' = "none"
    /\ returned' = [call |-> "getSymbols", value |-> symbols]
    /\ UNCHANGED <<text, lines, options, diagnostics, symbols, lineIndex,
                   blockStack, inLoop, seenProps, declaredVars, callsLeft>>

Next ==
    \/ Analyze
    \/ CheckSyntaxStep
    \/ CheckSyntaxEnd
    \/ ExtractSymbolsStep
    \/ ExtractSymbolsEnd
    \/ ValidateSemanticsStep
    \/ AnalyzeReturn
    \/ GetSymbols
    \/ GetSymbolsReturn

-----------------------------------------------------------------------------
(* Documents the analyzer is run on *)

\* longest document, in lines
MaxLines == 3

RECURSIVE JoinLines(_, _)
JoinLines(ls, eol) ==
    IF Len(ls) = 0 THEN ""
    ELSE IF Len(ls) = 1 THEN ls[1]
    ELSE ls[1] \o eol \o JoinLines(Tail(ls), eol)

\* every text of at most MaxLines lines drawn from vocabulary
TextsOver(vocabulary, eol) ==
    {JoinLines(ls, eol) : ls \in UNION {[1..n -> vocabulary] : n \in 0..MaxLines}}

\* block structure: openers, closers, loop control, one and several per line
BlockLines ==
    {"if a then",
     "while a do",
     "foreach x in xs do",
     "end",
     "break",
     "  continue",
     "while a do if b then",
     "end end",
     "foreach x in xs do break end",
     "if a then break end"}

InitBlocks == \E t \in TextsOver(BlockLines, "\n") : Constructed(t, TRUE, 1)

SpecBlocks == InitBlocks /\ [][Next]_vars

\* quotes: closed and unclosed strings, comment lines, inline comments, blank lines
StringLines ==
    {"x = \"a\"",
     "x = \"a",
     "# say \"hi",
     "  # \"a\" \"",
     "y = 1 # \"",
     "  s = \"a\" + \"b",
     "",
     "# ok"}

InitStrings ==
    \E eol \in {"\n", "\r\n"} :
        \E t \in TextsOver(StringLines, eol) : Constructed(t, TRUE, 1)

SpecStrings == InitStrings /\ [][Next]_vars

\* var declarations: valid and invalid annotations, at the line start,
\* indented, after other text, two on a line, none
TypeLines ==
    {"var age: number",
     "var age: int",
     "var interest: int",
     "  var n : string",
     "  var total: Int",
     "if ok then var a: int = 1 end",
     "var s: array var t: decimal",
     "var x = 1"}

InitTypes == \E t \in TextsOver(TypeLines, "\n") : Constructed(t, TRUE, 1)

SpecTypes == InitTypes /\ [][Next]_vars

\* calls: host functions, registry functions in exact and other case, a
\* keyword, two calls on a line, calls inside a string and inside comments
CallLines ==
    {"Foo(1)",
     "x = Upper(s)",
     "y = UPPER(s)",
     "Data(1)",
     "  Bar (2) Foo(3)",
     "m = Max(1, 2) # Baz(3)",
     "s = \"Qux(1)\" + Foo(2)",
     "# Foo(1)"}

InitCalls ==
    \E warn \in BOOLEAN :
        \E t \in TextsOver(CallLines, "\n") : Constructed(t, warn, 1)

SpecCalls == InitCalls /\ [][Next]_vars

\* identifier uses: declared and undeclared names, assignment targets,
\* property access, calls, keywords and function names in other case,
\* strings and comments
UseLines ==
    {"var x = 5",
     "if x > 3 then",
     "  y = 10",
     "var k: number = x",
     "Data.total = x + count",
     "n = length + Upper(s)",
     "foreach item in items do",
     "msg = \"a # b\" + z # note",
     "If = String + item.name"}

InitUses == \E t \in TextsOver(UseLines, "\n") : Constructed(t, TRUE, 1)

SpecUses == InitUses /\ [][Next]_vars

\* property assignments: a path assigned twice, a second path, a nested
\* path, reads, two assignments on one line, a comment line
PropLines ==
    {"Data.orders = 1",
     "Data.orders = 2",
     "Data.customers = 3",
     "x = Data.orders",
     "  Data.orders.count = Data.orders.count + 1",
     "Data.a = 1 Data.orders = 5",
     "var y = 1",
     "# Data.hidden = 1"}

InitProps == \E t \in TextsOver(PropLines, "\n") : Constructed(t, TRUE, 1)

SpecProps == InitProps /\ [][Next]_vars

\* longest series of public calls on one analyzer
MaxCalls == 3

\* documents with and without symbols and diagnostics, for series of calls
SessionLines ==
    {"var x = 1",
     "Data.a = x + y",
     "end",
     ""}

InitSession == \E t \in TextsOver(SessionLines, "\n") : Constructed(t, TRUE, MaxCalls)

SpecSession == InitSession /\ [][Next]_vars

\* uses before and after their declaration, with lines that the syntax check
\* reports on
OrderLines ==
    {"y = x",
     "var x = 1",
     "if y then",
     "Foo(z)",
     "end"}

InitOrder == \E t \in TextsOver(OrderLines, "\n") : Constructed(t, TRUE, 1)

SpecOrder == InitOrder /\ [][Next]_vars

\* calls and uses behind leading blanks, an empty string and a filled string
ColumnLines ==
    {"  Foo(a)",
     "s = \"ab\" + Bar(b)",
     "t = \"\" + Baz(c)",
     "  u = v"}

InitColumns == \E t \in TextsOver(ColumnLines, "\n") : Constructed(t, TRUE, 1)

SpecColumns == InitColumns /\ [][Next]_vars

\* the four block kinds, their closer, and a line that opens and closes
DepthLines ==
    {"if a then",
     "switch k do",
     "while a do",
     "foreach x in xs do",
     "end",
     "while a do x = 1 end"}

InitDepth == \E t \in TextsOver(DepthLines, "\n") : Constructed(t, TRUE, 1)

SpecDepth == InitDepth /\ [][Next]_vars

\* if chains: fragments of one or two lines, elseif in two spellings, an
\* elseif line that holds a loop opener
ElseifLines ==
    {"if a then",
     "elseif b then\nelse",
     "  ElseIf c then",
     "elseif d then while e do",
     "while a do",
     "end"}

InitElseif == \E t \in TextsOver(ElseifLines, "\n") : Constructed(t, TRUE, 1)

SpecElseif == InitElseif /\ [][Next]_vars

\* keywords, calls and names inside comments and inside string literals,
\* among them string literals that hold the comment marker
InertLines ==
    {"while a do",
     "end",
     "a = 1 # if end break Foo(1) y",
     "a = \"if end break Foo(1) y\"",
     "a = \"end # b\"",
     "a = \"Foo( # b\""}

InitInert == \E t \in TextsOver(InertLines, "\n") : Constructed(t, TRUE, 1)

SpecInert == InitInert /\ [][Next]_vars

\* declarations whose name does and does not occur earlier on the line
SymbolLines ==
    {"var a = 1",
     "var total = 2",
     "  var count = 0",
     "foreach e in list do",
     "foreach item in items do",
     "  Data.x = total"}

InitSymbols == \E t \in TextsOver(SymbolLines, "\n") : Constructed(t, TRUE, 1)

SpecSymbols == InitSymbols /\ [][Next]_vars

\* lines that declare one symbol, two of one kind, and two of different kinds
TableLines ==
    {"var c = 3",
     "var p = 1 var q = 2",
     "foreach it in xs do",
     "Data.z = 5",
     "foreach item in items do var n = 0",
     "Data.k = 1 var b = 2"}

InitTable == \E t \in TextsOver(TableLines, "\n") : Constructed(t, TRUE, 1)

SpecTable == InitTable /\ [][Next]_vars

\* dotted paths that are assigned, compared and read
CompareLines ==
    {"Data.x = 2",
     "Data.y = Data.x",
     "if Data.x == 5 then",
     "ok = Data.z == Data.y",
     "y = Data.w",
     "end"}

InitCompare == \E t \in TextsOver(CompareLines, "\n") : Constructed(t, TRUE, 1)

SpecCompare == InitCompare /\ [][Next]_vars

\* string literals that hold the comment marker, followed by code
HashLines ==
    {"if x then Data.t = \"#\" end",
     "s = \"#\" + Foo(2)",
     "t = \"a#b\" + u # c",
     "while a do",
     "end",
     "x = 1"}

InitHash == \E t \in TextsOver(HashLines, "\n") : Constructed(t, TRUE, 1)

SpecHash == InitHash /\ [][Next]_vars

\* names used before, after and outside their declaration, and undeclared
\* names used more than once
DeclaredLines ==
    {"z = i + q + q",
     "foreach i in xs do",
     "var x = q",
     "if x then var k = 2 end",
     "k = k + x",
     "end"}

InitDeclared == \E t \in TextsOver(DeclaredLines, "\n") : Constructed(t, TRUE, 1)

SpecDeclared == InitDeclared /\ [][Next]_vars

\* one line for each kind of diagnostic, with leading and trailing blanks
ShapeLines ==
    {"  end  ",
     "  break",
     "  var n: int",
     "  s = \"abc\" + Foo(x)",
     "while a do  ",
     "t = \"open"}

InitShapes ==
    \E warn \in BOOLEAN :
        \E t \in TextsOver(ShapeLines, "\n") : Constructed(t, warn, 1)

SpecShapes == InitShapes /\ [][Next]_vars

-----------------------------------------------------------------------------
(* What a document says, read off its characters independently of the      *)
(* analyzer's regular expressions: the words outside strings and comments. *)

\* the words of a line outside string literals and the line comment: <<word, col>>
RECURSIVE RefWordsFrom(_, _, _)
RefWordsFrom(s, i, inString) ==
    IF i > Len(s) THEN <<>>
    ELSE IF inString THEN RefWordsFrom(s, i + 1, Ch(s, i) # "\"")
    ELSE IF Ch(s, i) = "\"" THEN RefWordsFrom(s, i + 1, TRUE)
    ELSE IF Ch(s, i) = "#" THEN <<>>
    ELSE IF Ch(s, i) \in WordChar
         THEN <<[word |-> SubSeq(s, i, RunEnd(s, i, WordChar) - 1), col |-> i - 1]>>
                  \o RefWordsFrom(s, RunEnd(s, i, WordChar), FALSE)
    ELSE RefWordsFrom(s, i + 1, FALSE)

RefWords(line) == RefWordsFrom(line, 1, FALSE)

\* the words of the whole document in reading order: <<word, col, line>>
RECURSIVE RefDocWords(_, _)
RefDocWords(ls, i) ==
    IF i > Len(ls) THEN <<>>
    ELSE [k \in 1..Len(RefWords(ls[i])) |->
             [word |-> RefWords(ls[i])[k].word,
              col |-> RefWords(ls[i])[k].col,
              line |-> i - 1]]
         \o RefDocWords(ls, i + 1)

SelectWords(ws, wanted) == SelectSeq(ws, LAMBDA w : w.word \in wanted)

\* the block openers and closers of the document in reading order
RefBlockTokens(ls) == SelectWords(RefDocWords(ls, 1), blockKeywords \cup {"end"})

\* the open blocks after the tokens ts, starting from stack, and the number
\* of ends met with no block open
RECURSIVE RefNest(_, _, _)
RefNest(ts, stack, unmatched) ==
    IF ts = <<>> THEN [stack |-> stack, unmatched |-> unmatched]
    ELSE IF Head(ts).word = "end"
         THEN IF stack = <<>> THEN RefNest(Tail(ts), stack, unmatched + 1)
              ELSE RefNest(Tail(ts), SubSeq(stack, 1, Len(stack) - 1), unmatched)
    ELSE RefNest(Tail(ts), Append(stack, Head(ts)), unmatched)

\* every opener is closed by its own end, in properly nested order
ProperlyNested(ls) ==
    RefNest(RefBlockTokens(ls), <<>>, 0) = [stack |-> <<>>, unmatched |-> 0]

IsUnexpectedEnd(d) == d.message = "Unexpected \"end\" without matching block start"

IsUnclosedBlock(d) == StartsWith(d.message, "Unclosed \"")

IsLoopControl(d) ==
    d.message \in {"\"break\" can only be used inside loops",
                   "\"continue\" can only be used inside loops"}

OnLine(d, i) == d.range.start.line = i /\ d.range.end.line = i

\* checkSyntax has returned
SyntaxDone ==
    \/ pc \in {"extractSymbols", "validateSemantics"} /\ call = "analyze"
    \/ pc = "idle" /\ returned.call = "analyze"

\* checkSyntax has just returned
SyntaxReturned == pc = "extractSymbols" /\ call = "analyze" /\ lineIndex = 0

\* analyze() has returned
AnalyzeDone == pc = "idle" /\ returned.call = "analyze"

-----------------------------------------------------------------------------
(* C1 *)

\* C1: a document whose block openers are each closed by their own end in
\* properly nested order, several openers or ends on one line included,
\* leaves the block stack empty and gets neither an Unexpected "end" nor an
\* Unclosed block diagnostic.
C1_ProperlyNestedIsClean ==
    (SyntaxDone /\ ProperlyNested(lines)) =>
        /\ blockStack = <<>>
        /\ \A k \in 1..Len(diagnostics) :
               ~IsUnexpectedEnd(diagnostics[k]) /\ ~IsUnclosedBlock(diagnostics[k])

-----------------------------------------------------------------------------
(* C2 *)

\* checkSyntax's forEach over the lines i+1.. of ls, from state st
RECURSIVE CheckSyntaxFold(_, _, _, _)
CheckSyntaxFold(st, ls, i, warn) ==
    IF i >= Len(ls) THEN st
    ELSE CheckSyntaxFold(
             CheckSyntaxLine(st.blockStack, st.inLoop, st.diagnostics, ls[i + 1], i, warn),
             ls, i + 1, warn)

\* checkSyntax on the lines ls: its final block stack, loop depth and diagnostics
RunCheckSyntax(ls, warn) ==
    LET st == CheckSyntaxFold([blockStack |-> <<>>, inLoop |-> 0, diagnostics |-> <<>>],
                              ls, 0, warn)
    IN  [blockStack |-> st.blockStack,
         inLoop |-> st.inLoop,
         diagnostics |-> st.diagnostics \o UnclosedBlockDiags(st.blockStack, ls)]

\* ls without its line at zero-based index r
WithoutLine(ls, r) == SubSeq(ls, 1, r) \o SubSeq(ls, r + 2, Len(ls))

\* zero-based line number l once the line r is taken out of the document
Renumbered(l, r) == IF r >= 0 /\ l > r THEN l - 1 ELSE l

IsBlockDiag(d) == IsUnexpectedEnd(d) \/ IsUnclosedBlock(d) \/ IsLoopControl(d)

\* how the blocks were matched: the stack left open and the block diagnostics,
\* leaving out line r and numbering the other lines as if r were absent
Matching(stack, diags, r) ==
    LET ds == SelectSeq(diags, LAMBDA d : IsBlockDiag(d) /\ d.range.start.line # r)
    IN  [open |-> [k \in 1..Len(stack) |->
                      [type |-> stack[k].type, line |-> Renumbered(stack[k].line, r)]],
         diags |-> [k \in 1..Len(ds) |->
                      <<Renumbered(ds[k].range.start.line, r), ds[k].message>>]]

\* the line contains the closer end and no opener of its own
IsBareEnd(line) ==
    /\ SelectWords(RefWords(line), {"end"}) # <<>>
    /\ SelectWords(RefWords(line), blockKeywords) = <<>>

\* the running checkSyntax is about to process a line whose end meets an empty stack
EndMeetsEmptyStack ==
    /\ pc = "checkSyntax"
    /\ lineIndex < Len(lines)
    /\ blockStack = <<>>
    /\ IsBareEnd(lines[lineIndex + 1])

\* the step over such a line: one Unexpected "end" Error on it, stack and depth untouched
C2_Step ==
    EndMeetsEmptyStack =>
        /\ Len(diagnostics') = Len(diagnostics) + 1
        /\ LET d == diagnostics'[Len(diagnostics')]
           IN  /\ IsUnexpectedEnd(d)
               /\ OnLine(d, lineIndex)
               /\ d.severity = "Error"
        /\ Len(SelectSeq(diagnostics',
                         LAMBDA d : IsUnexpectedEnd(d) /\ OnLine(d, lineIndex))) = 1
        /\ blockStack' = <<>>
        /\ inLoop = 0
        /\ inLoop' = 0

\* at the end of checkSyntax: the rest of the document was matched as if each
\* such line had been absent
C2_Final ==
    SyntaxReturned =>
        \A r \in 0..(Len(lines) - 1) :
            LET before == CheckSyntaxFold(
                              [blockStack |-> <<>>, inLoop |-> 0, diagnostics |-> <<>>],
                              SubSeq(lines, 1, r), 0, options.warnOnHostFunctions)
                rest == RunCheckSyntax(WithoutLine(lines, r), options.warnOnHostFunctions)
            IN  (before.blockStack = <<>> /\ IsBareEnd(lines[r + 1])) =>
                    Matching(blockStack, diagnostics, r)
                        = Matching(rest.blockStack, rest.diagnostics, -1)

\* C2: an end reached while the block stack is empty yields exactly one
\* Unexpected "end" Error on its line, leaves the block stack empty and the
\* loop depth 0, and every other opener and closer of the document is matched
\* as if the line had been absent.
C2_UnmatchedEndIsReportedAndIgnored == [][C2_Step]_vars /\ []C2_Final

\* an unmatched end on the first line, then a block opened and closed after it
C2_Witness ==
    /\ SyntaxDone
    /\ Len(lines) = 3
    /\ IsBareEnd(lines[1])
    /\ \E k \in 1..Len(diagnostics) :
           IsUnexpectedEnd(diagnostics[k]) /\ OnLine(diagnostics[k], 0)
    /\ RefBlockTokens(SubSeq(lines, 2, 3)) # <<>>
    /\ ProperlyNested(SubSeq(lines, 2, 3))
    /\ SelectWords(RefWords(lines[2]), {"end"}) = <<>>
    /\ blockStack = <<>>

-----------------------------------------------------------------------------
(* C3 *)

-----------------------------------------------------------------------------
(* C4 *)

\* the break/continue keywords of the tokens ts with the blocks open around
\* each: <<line, open>>
RECURSIVE RefLoopControls(_, _)
RefLoopControls(ts, stack) ==
    IF ts = <<>> THEN <<>>
    ELSE IF Head(ts).word = "end"
         THEN RefLoopControls(Tail(ts), SubSeq(stack, 1, Len(stack) - 1))
    ELSE IF Head(ts).word \in blockKeywords
         THEN RefLoopControls(Tail(ts), Append(stack, Head(ts).word))
    ELSE <<[line |-> Head(ts).line, open |-> stack]>> \o RefLoopControls(Tail(ts), stack)

LoopControlsOf(ls) ==
    RefLoopControls(
        SelectWords(RefDocWords(ls, 1), blockKeywords \cup {"end", "break", "continue"}),
        <<>>)

IsFlagged(i) ==
    \E k \in 1..Len(diagnostics) : IsLoopControl(diagnostics[k]) /\ OnLine(diagnostics[k], i)

\* C4: a break or continue is flagged whenever no while/foreach is open where
\* it occurs, and never when it lies inside a foreach ... end, also on one line
\* with the opener and the end, and inside an if within the loop.
C4_LoopControlFlaggedIffOutsideLoop ==
    SyntaxDone =>
        \A k \in 1..Len(LoopControlsOf(lines)) :
            LET u == LoopControlsOf(lines)[k]
                kinds == {u.open[j] : j \in 1..Len(u.open)}
            IN  /\ (kinds \cap loopKeywords = {}) => IsFlagged(u.line)
                /\ ("foreach" \in kinds) => ~IsFlagged(u.line)

-----------------------------------------------------------------------------
(* C5 *)

\* the raw line holds an odd number of double-quote characters
RECURSIVE OddQuotesFrom(_, _)
OddQuotesFrom(s, i) ==
    IF i > Len(s) THEN FALSE ELSE (Ch(s, i) = "\"") # OddQuotesFrom(s, i + 1)

OddQuotes(line) == OddQuotesFrom(line, 1)

\* the first non-blank character of the line is the comment marker
IsCommentLine(line) ==
    \E j \in 1..Len(line) :
        Ch(line, j) = "#" /\ \A k \in 1..(j - 1) : Ch(line, k) \in Space

IsUnclosedString(d) == d.message = "Unclosed string literal"

UnclosedStringsOn(i) ==
    SelectSeq(diagnostics, LAMBDA d : IsUnclosedString(d) /\ OnLine(d, i))

\* line i carries exactly one Unclosed string literal Error, over its whole length
FlaggedUnclosed(i) ==
    /\ Len(UnclosedStringsOn(i)) = 1
    /\ UnclosedStringsOn(i)[1].severity = "Error"
    /\ UnclosedStringsOn(i)[1].range.start.character = 0
    /\ UnclosedStringsOn(i)[1].range.end.character = Len(lines[i + 1])

\* C5 as stated: every line with an odd number of double quotes, comment
\* lines included, gets the Unclosed string literal Error over columns
\* 0..length; a line with an even number never gets it.
C5_OddQuotesAlwaysFlagged ==
    SyntaxDone =>
        \A i \in 0..(Len(lines) - 1) :
            IF OddQuotes(lines[i + 1]) THEN FlaggedUnclosed(i)
            ELSE Len(UnclosedStringsOn(i)) = 0

\* C5 amended: every line whose first non-blank character is not # and whose
\* raw text holds an odd number of double quotes gets exactly one Unclosed
\* string literal Error over columns 0..length, whatever else is on the line
\* (a quote inside an inline comment counts); a comment line or a line with
\* an even number of quotes never gets it.
C5_OddQuotesFlaggedExceptCommentLines ==
    SyntaxDone =>
        \A i \in 0..(Len(lines) - 1) :
            IF OddQuotes(lines[i + 1]) /\ ~IsCommentLine(lines[i + 1])
            THEN FlaggedUnclosed(i)
            ELSE Len(UnclosedStringsOn(i)) = 0

\* an odd quote inside an inline comment was flagged, an odd comment line was not
C5_Witness ==
    /\ SyntaxDone
    /\ \E i, j \in 0..(Len(lines) - 1) :
           /\ lines[i + 1] = "y = 1 # \""
           /\ FlaggedUnclosed(i)
           /\ IsCommentLine(lines[j + 1])
           /\ OddQuotes(lines[j + 1])
           /\ Len(UnclosedStringsOn(j)) = 0

-----------------------------------------------------------------------------
(* C6, C7 *)

\* s[from..to] is optional blanks, one colon, optional blanks
IsColonGap(s, from, to) ==
    /\ Cardinality({j \in from..to : Ch(s, j) = ":"}) = 1
    /\ \A j \in from..to : Ch(s, j) \in Space \cup {":"}

\* the annotated declarations of a line, var name : type anywhere on it:
\* <<name, type, typeCol>>
RefDeclarations(line) ==
    LET ws == RefWords(line)
        IsDecl(k) ==
            /\ ws[k].word = "var"
            /\ IsColonGap(line, ws[k + 1].col + Len(ws[k + 1].word) + 1, ws[k + 2].col)
        at == SelectSeq([k \in 1..(Len(ws) - 2) |-> k], IsDecl)
    IN  [j \in 1..Len(at) |->
            [name |-> ws[at[j] + 1].word,
             type |-> ws[at[j] + 2].word,
             typeCol |-> ws[at[j] + 2].col]]

UnknownTypeMessage(t) ==
    "Unknown type \"" \o t \o "\". Expected: number, string, boolean, object, or array"

IsUnknownType(d) == StartsWith(d.message, "Unknown type \"")

\* C6: every declaration with a type annotation, wherever its var stands on
\* the line, gets no Unknown type diagnostic when the type is one of the five
\* valid names, and otherwise exactly one Unknown type Error naming the type
\* and listing the five names.
C6_EveryAnnotationChecked ==
    SyntaxDone =>
        \A i \in 0..(Len(lines) - 1) :
            \A k \in 1..Len(RefDeclarations(lines[i + 1])) :
                LET t == RefDeclarations(lines[i + 1])[k].type
                    declared == SelectSeq(RefDeclarations(lines[i + 1]),
                                          LAMBDA r : r.type = t)
                    reported == SelectSeq(diagnostics,
                                    LAMBDA d : /\ OnLine(d, i)
                                               /\ d.severity = "Error"
                                               /\ d.message = UnknownTypeMessage(t))
                IN  IF t \in typeKeywords THEN Len(reported) = 0
                    ELSE Len(reported) = Len(declared)

\* C7: the range of an Unknown type Error is exactly the annotation text after
\* the colon, also when the same characters occur earlier on the line.
C7_UnknownTypeRangeIsAnnotation ==
    SyntaxDone =>
        \A n \in 1..Len(diagnostics) :
            IsUnknownType(diagnostics[n]) =>
                \E k \in 1..Len(RefDeclarations(lines[diagnostics[n].range.start.line + 1])) :
                    LET r == RefDeclarations(lines[diagnostics[n].range.start.line + 1])[k]
                    IN  /\ diagnostics[n].message = UnknownTypeMessage(r.type)
                        /\ diagnostics[n].range.start.character = r.typeCol
                        /\ diagnostics[n].range.end.character = r.typeCol + Len(r.type)

-----------------------------------------------------------------------------
(* C8 *)

\* the call occurrences of a line: capitalized identifiers followed by
\* optional blanks and "(", outside comments and strings, left to right
RefCalls(line) ==
    SelectSeq(RefWords(line),
              LAMBDA w : /\ Ch(w.word, 1) \in Upper
                         /\ LET q == RunEnd(line, w.col + Len(w.word) + 1, Space)
                            IN  q <= Len(line) /\ Ch(line, q) = "(")

\* the calls of a line that the registry and the keywords do not know
RefHostCalls(line) ==
    SelectSeq(RefCalls(line),
              LAMBDA w : w.word \notin keywords /\ w.word \notin getAllFunctionNames)

HostFunctionMessage(name) ==
    "Referenced function \"" \o name \o "\" will need to be made available at runtime"

InformationOn(i) ==
    SelectSeq(diagnostics, LAMBDA d : d.severity = "Information" /\ OnLine(d, i))

-----------------------------------------------------------------------------
(* C9 *)

\* the identifier tokens of a line outside comments and strings
RefIdentifiers(line) ==
    SelectSeq(RefWords(line), LAMBDA w : Ch(w.word, 1) \in IdentStart)

\* the token is immediately preceded by "."
RefAfterDot(line, w) == w.col > 0 /\ Ch(line, w.col) = "."

\* the token is followed by optional blanks and "("
RefBeforeParen(line, w) ==
    LET q == RunEnd(line, w.col + Len(w.word) + 1, Space)
    IN  q <= Len(line) /\ Ch(line, q) = "("

\* the five conditions of the claim
RefIsUndefinedUse(line, w, syms) ==
    /\ ~RefAfterDot(line, w)
    /\ ~RefBeforeParen(line, w)
    /\ w.word \notin keywords \cup typeKeywords
    /\ ~\E f \in getAllFunctionNames : ToLowerCase(f) = ToLowerCase(w.word)
    /\ w.word \notin {syms[k].name : k \in 1..Len(syms)} \cup {"Data"}

UndefinedVariableMessage(name) == "Undefined variable \"" \o name \o "\""

WarningsOn(i) ==
    SelectSeq(diagnostics, LAMBDA d : d.severity = "Warning" /\ OnLine(d, i))

\* C9: validateSemantics emits an Undefined variable Warning for an identifier
\* token exactly when it is not preceded by ".", not followed by blanks and
\* "(", not a keyword or type keyword (case-sensitive), not a registry
\* function name (case-insensitive) and not a symbol name or Data; the target
\* of a plain assignment to an undeclared name is flagged.
C9_UndefinedVariableExactly ==
    AnalyzeDone =>
        /\ \A i \in 0..(Len(lines) - 1) :
               LET expected == SelectSeq(RefIdentifiers(lines[i + 1]),
                                   LAMBDA w : RefIsUndefinedUse(lines[i + 1], w, symbols))
               IN  /\ Len(WarningsOn(i)) = Len(expected)
                   /\ \A k \in 1..Len(expected) :
                          WarningsOn(i)[k].message = UndefinedVariableMessage(expected[k].word)
        /\ \A n \in 1..Len(diagnostics) :
               diagnostics[n].severity = "Warning" =>
                   diagnostics[n].range.start.line \in 0..(Len(lines) - 1)

\* the spec's example: x declared, the assignment target y flagged, and a
\* function name in lower case passed over
C9_Witness ==
    /\ AnalyzeDone
    /\ \E i, j, k \in 0..(Len(lines) - 1) :
           /\ lines[i + 1] = "var x = 5"
           /\ Len(WarningsOn(i)) = 0
           /\ lines[j + 1] = "  y = 10"
           /\ Len(WarningsOn(j)) = 1
           /\ WarningsOn(j)[1].message = UndefinedVariableMessage("y")
           /\ lines[k + 1] = "n = length + Upper(s)"
           /\ Len(WarningsOn(k)) = 2

-----------------------------------------------------------------------------
(* C10 *)

\* the last word of the dotted chain that starts at word k
RECURSIVE RefChainEnd(_, _, _)
RefChainEnd(line, ws, k) ==
    IF /\ k < Len(ws)
       /\ ws[k + 1].col = ws[k].col + Len(ws[k].word) + 1
       /\ Ch(line, ws[k + 1].col) = "."
       /\ Ch(ws[k + 1].word, 1) \in IdentStart
    THEN RefChainEnd(line, ws, k + 1)
    ELSE k

\* the dotted paths of a line that are followed by blanks and a single "=",
\* left to right
RECURSIVE RefAssignedFrom(_, _, _)
RefAssignedFrom(line, ws, k) ==
    IF k > Len(ws) THEN <<>>
    ELSE LET e == RefChainEnd(line, ws, k)
             after == ws[e].col + Len(ws[e].word) + 1
             q == RunEnd(line, after, Space)
             isAssigned == /\ e > k
                           /\ Ch(ws[k].word, 1) \in IdentStart
                           /\ q <= Len(line)
                           /\ Ch(line, q) = "="
                           /\ ~(q < Len(line) /\ Ch(line, q + 1) = "=")
         IN  (IF isAssigned
              THEN <<SubSeq(line, ws[k].col + 1, after - 1)>>
              ELSE <<>>)
             \o RefAssignedFrom(line, ws, e + 1)

\* the assignments of the document in document order: <<path, line>>
RECURSIVE RefAssignments(_, _)
RefAssignments(ls, i) ==
    IF i > Len(ls) THEN <<>>
    ELSE LET paths == RefAssignedFrom(ls[i], RefWords(ls[i]), 1)
         IN  [k \in 1..Len(paths) |-> [path |-> paths[k], line |-> i - 1]]
             \o RefAssignments(ls, i + 1)

\* the assignments that are the first to their path
RefFirstAssignments(as) ==
    LET first(k) == \A j \in 1..(k - 1) : as[j].path # as[k].path
        F[k \in 0..Len(as)] ==
            IF k = 0 THEN <<>>
            ELSE IF first(k) THEN Append(F[k - 1], as[k]) ELSE F[k - 1]
    IN  F[Len(as)]

PropertySymbols == SelectSeq(symbols, LAMBDA s : s.type = "property")

\* extractSymbols has returned
SymbolsDone == pc = "validateSemantics" \/ AnalyzeDone

-----------------------------------------------------------------------------
(* C11 *)

\* extractSymbols once over ls, from an empty table
RECURSIVE ExtractSymbolsFold(_, _, _)
ExtractSymbolsFold(st, ls, i) ==
    IF i >= Len(ls) THEN st
    ELSE ExtractSymbolsFold(
             ExtractSymbolsLine(st.symbols, st.seenProps, ls[i + 1], i), ls, i + 1)

OneExtraction(ls) == ExtractSymbolsFold([symbols |-> <<>>, seenProps |-> {}], ls, 0).symbols

\* validateSemantics once over ls against the names of syms
RECURSIVE ValidateSemanticsFold(_, _, _)
ValidateSemanticsFold(ls, declared, i) ==
    IF i >= Len(ls) THEN <<>>
    ELSE ValidateSemanticsLine(ls[i + 1], declared, i)
         \o ValidateSemanticsFold(ls, declared, i + 1)

\* the three passes once, from the state of a new analyzer
OneAnalysis(ls, warn) ==
    RunCheckSyntax(ls, warn).diagnostics
    \o ValidateSemanticsFold(ls, DeclaredVarsOf(OneExtraction(ls)), 0)

\* C11: whatever series of analyze() and getSymbols() calls is made on one
\* analyzer, each analyze() returns the diagnostics of one run of the three
\* passes and each getSymbols() returns the symbols of one extraction pass
\* over the document; nothing is carried over or duplicated between calls.
C11_CallsReturnOnePass ==
    /\ returned.call = "analyze" =>
           returned.value = OneAnalysis(lines, options.warnOnHostFunctions)
    /\ returned.call = "getSymbols" => returned.value = OneExtraction(lines)
    /\ (pc = "idle" /\ returned.call # "none") =>
           symbols = OneExtraction(lines)

\* the third call, a getSymbols() after an analyze(), has returned the symbols
\* of a document that has some and whose analysis reported something
C11_Witness ==
    /\ pc = "idle"
    /\ callsLeft = 0
    /\ returned.call = "getSymbols"
    /\ Len(returned.value) = 2
    /\ Len(diagnostics) > 0

-----------------------------------------------------------------------------
(* C12 *)

\* the names a document declares with var or binds with foreach, on any line
RefDeclaredNames ==
    LET ws == RefDocWords(lines, 1)
    IN  {ws[k + 1].word : k \in {j \in 1..(Len(ws) - 1) :
                                    /\ ws[j].word \in {"var", "foreach"}
                                    /\ ws[j + 1].line = ws[j].line}}

IsUndefinedVariable(d) ==
    d.severity = "Warning" /\ StartsWith(d.message, "Undefined variable ")

\* within analyze() the passes follow one another in this order
C12_PassOrder ==
    (call = "analyze" /\ pc' # pc) =>
        <<pc, pc'>> \in {<<"checkSyntax", "extractSymbols">>,
                         <<"extractSymbols", "validateSemantics">>,
                         <<"validateSemantics", "idle">>}

\* no Warning while the first two passes run; the declared names are those of
\* the whole document while the third runs; in the returned list the Errors
\* and Information notes come before the Warnings
C12_State ==
    /\ pc \in {"checkSyntax", "extractSymbols"} =>
           \A n \in 1..Len(diagnostics) : ~IsUndefinedVariable(diagnostics[n])
    /\ pc = "validateSemantics" =>
           /\ RefDeclaredNames \subseteq declaredVars
           /\ \A n \in 1..Len(symbols) : symbols[n].name \in declaredVars
    /\ returned.call = "analyze" =>
           /\ \A m, n \in 1..Len(returned.value) :
                  (/\ returned.value[m].severity \in {"Error", "Information"}
                   /\ IsUndefinedVariable(returned.value[n])) => m < n
           /\ \A n \in 1..Len(returned.value) :
                  \A name \in RefDeclaredNames :
                      returned.value[n].message # UndefinedVariableMessage(name)

\* C12: analyze() runs checkSyntax, then extractSymbols, then
\* validateSemantics; every diagnostic of the syntax check precedes every
\* Undefined variable Warning in the returned list, and the Warnings are
\* decided against the symbols of the complete document.
C12_PassesInOrder == [][C12_PassOrder]_vars /\ []C12_State

\* x is used on a line before its declaration and is not flagged, and the
\* Unclosed block Error of a later line stands before the Warning of line 0
C12_Witness ==
    /\ returned.call = "analyze"
    /\ lines = <<"y = x", "var x = 1", "if y then">>
    /\ Len(returned.value) = 3
    /\ IsUnclosedBlock(returned.value[1])
    /\ returned.value[2].message = UndefinedVariableMessage("y")
    /\ returned.value[2].range.start.line = 0

-----------------------------------------------------------------------------
(* C13 *)

\* the diagnostic names a word that stands at its start column in the line
NamesWordAtStart(d) ==
    \E i \in 1..Len(lines) :
        /\ d.range.start.line = i - 1
        /\ \E k \in 1..Len(RefWords(lines[i])) :
               LET w == RefWords(lines[i])[k]
               IN  /\ w.col = d.range.start.character
                   /\ d.message \in {HostFunctionMessage(w.word),
                                     UndefinedVariableMessage(w.word)}

\* C13: every Information note and every Undefined variable Warning starts at
\* the column where the identifier it names stands in the original line, also
\* behind leading blanks or a string literal with content.
C13_ColumnsOfOriginalLine ==
    AnalyzeDone =>
        \A n \in 1..Len(diagnostics) :
            (diagnostics[n].severity = "Information" \/ IsUndefinedVariable(diagnostics[n]))
                => NamesWordAtStart(diagnostics[n])

-----------------------------------------------------------------------------
(* C14 *)

\* the while/foreach entries on the block stack
LoopEntries(stack) == {k \in 1..Len(stack) : stack[k].type \in {"while", "foreach"}}

\* after every prefix of the lines
C14_DepthCountsLoops ==
    pc = "checkSyntax" \/ SyntaxDone =>
        inLoop >= 0 /\ inLoop = Cardinality(LoopEntries(blockStack))

\* the step over a line that only closes
C14_Step ==
    (/\ pc = "checkSyntax"
     /\ lineIndex < Len(lines)
     /\ IsBareEnd(lines[lineIndex + 1])) =>
        IF blockStack = <<>>
        THEN inLoop' = inLoop /\ blockStack' = <<>>
        ELSE /\ blockStack' = SubSeq(blockStack, 1, Len(blockStack) - 1)
             /\ inLoop' = IF blockStack[Len(blockStack)].type \in {"if", "switch"}
                          THEN inLoop
                          ELSE inLoop - 1

\* C14: after checkSyntax has processed any prefix of the lines the loop depth
\* is at least 0 and is the number of while/foreach entries on the block
\* stack; popping an if or switch entry leaves it unchanged and an end that
\* meets the empty stack does not decrement it.
C14_LoopDepthInvariant == [][C14_Step]_vars /\ []C14_DepthCountsLoops

\* a switch inside a while has been closed and the while is still open
C14_Witness ==
    /\ pc = "checkSyntax"
    /\ lines = <<"while a do", "switch k do", "end">>
    /\ lineIndex = 3
    /\ inLoop = 1
    /\ Len(blockStack) = 1

-----------------------------------------------------------------------------
(* C15 *)

\* the first word of the line, "" if it has none before a comment
RefFirstWord(line) ==
    IF RefWords(line) # <<>> /\ RefWords(line)[1].col = Len(line) - Len(TrimStart(line))
    THEN RefWords(line)[1].word
    ELSE ""

\* the line begins with the continuation keyword
BeginsWithElseif(line) == ToLowerCase(RefFirstWord(line)) = "elseif"

HasWord(line, word) == SelectWords(RefWords(line), {word}) # <<>>

\* the step over a line that begins with elseif: nothing is pushed, the loop
\* depth does not rise, and without an end on the line both are untouched
C15_Step ==
    (/\ pc = "checkSyntax"
     /\ lineIndex < Len(lines)
     /\ BeginsWithElseif(lines[lineIndex + 1])) =>
        /\ Len(blockStack') <= Len(blockStack)
        /\ inLoop' <= inLoop
        /\ blockStack' = SubSeq(blockStack, 1, Len(blockStack'))
        /\ ~HasWord(lines[lineIndex + 1], "end") =>
               blockStack' = blockStack /\ inLoop' = inLoop

\* if ... / elseif ... / else / end: an if line, continuation lines, one end
IsIfChain(ls) ==
    /\ Len(ls) >= 3
    /\ RefFirstWord(ls[1]) = "if"
    /\ SelectWords(RefWords(ls[1]), blockKeywords \cup {"end"}) = <<[word |-> "if", col |-> 0]>>
    /\ IsBareEnd(ls[Len(ls)])
    /\ Len(SelectWords(RefWords(ls[Len(ls)]), {"end"})) = 1
    /\ \A i \in 2..(Len(ls) - 1) :
           /\ ~HasWord(ls[i], "end")
           /\ \/ BeginsWithElseif(ls[i])
              \/ RefFirstWord(ls[i]) = "else" /\ SelectWords(RefWords(ls[i]), blockKeywords) = <<>>

\* such a chain leaves the stack as it was before the if and no block diagnostic
C15_ChainClosed ==
    (SyntaxDone /\ IsIfChain(lines)) =>
        /\ blockStack = <<>>
        /\ inLoop = 0
        /\ \A n \in 1..Len(diagnostics) :
               ~IsUnexpectedEnd(diagnostics[n]) /\ ~IsUnclosedBlock(diagnostics[n])

\* C15: a line that begins with elseif never pushes a block-stack entry and
\* never raises the loop depth, so a chain if / elseif / else / end is closed
\* by its single end: the stack is as before the if and there is no
\* unexpected-end or unclosed-block diagnostic.
C15_ElseifContinues == [][C15_Step]_vars /\ []C15_ChainClosed

\* the chain of the claim has been checked
C15_Witness ==
    /\ SyntaxDone
    /\ lines = <<"if a then", "elseif b then", "else", "end">>
    /\ IsIfChain(lines)
    /\ blockStack = <<>>

-----------------------------------------------------------------------------
(* C16 *)

\* outside comments and strings the line holds no opener, closer or loop control
NoBlockWords(line) ==
    SelectWords(RefWords(line), blockKeywords \cup {"end", "break", "continue"}) = <<>>

\* the step of checkSyntax over such a line: stack and depth untouched, no
\* block or loop-control diagnostic added
C16_Step ==
    (/\ pc = "checkSyntax"
     /\ lineIndex < Len(lines)
     /\ NoBlockWords(lines[lineIndex + 1])) =>
        /\ blockStack' = blockStack
        /\ inLoop' = inLoop
        /\ \A n \in (Len(diagnostics) + 1)..Len(diagnostics') :
               ~IsBlockDiag(diagnostics'[n])

\* a note or Warning names a call or a word that stands outside comments and
\* strings on its line
C16_State ==
    AnalyzeDone =>
        \A n \in 1..Len(diagnostics) :
            LET d == diagnostics[n]
                line == lines[d.range.start.line + 1]
            IN  /\ d.severity = "Information" =>
                       \E k \in 1..Len(RefCalls(line)) :
                           d.message = HostFunctionMessage(RefCalls(line)[k].word)
                /\ IsUndefinedVariable(d) =>
                       \E k \in 1..Len(RefWords(line)) :
                           d.message = UndefinedVariableMessage(RefWords(line)[k].word)

\* C16: text inside a line comment or inside a closed string literal is inert:
\* a block keyword or break/continue there leaves block stack and loop depth
\* alone and causes no block or loop-control diagnostic, a call-shaped name
\* there causes no host-function note, an identifier there no Undefined
\* variable Warning.
C16_CommentsAndStringsInert == [][C16_Step]_vars /\ []C16_State

-----------------------------------------------------------------------------
(* C17 *)

\* the symbol's position is that of its declared identifier: the word after
\* var or foreach, or the dotted path that is assigned
AtDeclaredIdentifier(sym) ==
    /\ sym.line \in 0..(Len(lines) - 1)
    /\ LET line == lines[sym.line + 1]
           ws == RefWords(line)
       IN  IF sym.type = "property"
           THEN /\ SubSeq(line, sym.character + 1, sym.character + Len(sym.name)) = sym.name
                /\ \E k \in 1..Len(ws) : ws[k].col = sym.character
                /\ sym.name \in {RefAssignedFrom(line, ws, 1)[k] :
                                    k \in 1..Len(RefAssignedFrom(line, ws, 1))}
           ELSE \E k \in 1..(Len(ws) - 1) :
                    /\ ws[k].word = (IF sym.type = "iterator" THEN "foreach" ELSE "var")
                    /\ ws[k + 1].word = sym.name
                    /\ ws[k + 1].col = sym.character

\* C17: every symbol's line is the declaring line and its character is the
\* column, in the original line, of the first character of the declared
\* identifier itself, also when the identifier's text occurs earlier on the
\* line inside another word or the line has leading blanks.
C17_SymbolAtItsIdentifier ==
    SymbolsDone => \A n \in 1..Len(symbols) : AtDeclaredIdentifier(symbols[n])

-----------------------------------------------------------------------------
(* C18 *)

\* the column of the symbol's declaring occurrence on its line: the word after
\* var or foreach, or the start of the assigned path
DeclaringColumn(sym) ==
    LET line == lines[sym.line + 1]
        ws == RefWords(line)
    IN  IF sym.type = "property"
        THEN MinOf({ws[k].col : k \in {j \in 1..Len(ws) :
                 /\ ws[j].col + Len(sym.name) <= Len(line)
                 /\ SubSeq(line, ws[j].col + 1, ws[j].col + Len(sym.name)) = sym.name}})
        ELSE MinOf({ws[k + 1].col : k \in {j \in 1..(Len(ws) - 1) :
                 /\ ws[j].word = (IF sym.type = "iterator" THEN "foreach" ELSE "var")
                 /\ ws[j + 1].word = sym.name}})

\* a is declared before b in reading order
DeclaredBefore(a, b) ==
    \/ a.line < b.line
    \/ a.line = b.line /\ DeclaringColumn(a) < DeclaringColumn(b)

\* C18: the symbol table is ordered by declaring occurrence, top to bottom and
\* left to right within a line, whatever the kinds of the symbols: of two
\* symbols the one declared on an earlier line, or further left on the same
\* line, comes first.
C18_SymbolsInReadingOrder ==
    SymbolsDone =>
        \A m, n \in 1..Len(symbols) :
            m < n => DeclaredBefore(symbols[m], symbols[n])

-----------------------------------------------------------------------------
(* C19 *)

\* the paths the document assigns to
RefAssignedPaths ==
    {RefAssignments(lines, 1)[k].path : k \in 1..Len(RefAssignments(lines, 1))}

\* C19: every symbol of type property names a dotted path that is the target
\* of an assignment somewhere in the document; a path that only stands left
\* of an equality comparison or is only read contributes no symbol.
C19_PropertySymbolsAreAssigned ==
    SymbolsDone =>
        \A n \in 1..Len(PropertySymbols) : PropertySymbols[n].name \in RefAssignedPaths

-----------------------------------------------------------------------------
(* C20 *)

\* the line with every # inside a closed string literal replaced by -
RECURSIVE WithoutHashFrom(_, _, _)
WithoutHashFrom(s, i, inString) ==
    IF i > Len(s) THEN ""
    ELSE IF inString
         THEN (IF Ch(s, i) = "#" THEN "-" ELSE Ch(s, i))
              \o WithoutHashFrom(s, i + 1, Ch(s, i) # "\"")
    ELSE IF Ch(s, i) = "#" THEN SubSeq(s, i, Len(s))
    ELSE IF Ch(s, i) = "\"" /\ \E j \in (i + 1)..Len(s) : Ch(s, j) = "\""
         THEN "\"" \o WithoutHashFrom(s, i + 1, TRUE)
    ELSE Ch(s, i) \o WithoutHashFrom(s, i + 1, FALSE)

WithoutHash(ls) == [i \in 1..Len(ls) |-> WithoutHashFrom(ls[i], 1, FALSE)]

\* C20: a # inside a closed string literal starts no comment in checkSyntax or
\* in validateSemantics: the document is analysed exactly as the document
\* whose strings hold another character in place of the #, with the same
\* final block stack and the same diagnostics.
C20_HashInStringIsNoComment ==
    AnalyzeDone =>
        /\ diagnostics = OneAnalysis(WithoutHash(lines), options.warnOnHostFunctions)
        /\ blockStack = RunCheckSyntax(WithoutHash(lines), options.warnOnHostFunctions).blockStack

-----------------------------------------------------------------------------
(* C21 *)

\* the Warnings on line i that name the word
WarningsNaming(i, word) ==
    SelectSeq(WarningsOn(i), LAMBDA d : d.message = UndefinedVariableMessage(word))

\* the qualifying occurrences of the word on line i
QualifyingUses(i, word) ==
    SelectSeq(RefIdentifiers(lines[i + 1]),
              LAMBDA w : w.word = word /\ RefIsUndefinedUse(lines[i + 1], w, symbols))

\* the scan of validateSemantics leaves the declared set alone
C21_Step == pc = "validateSemantics" => declaredVars' = declaredVars

\* the set holds every var and foreach name of the document before the first
\* line is scanned; no declared name is flagged, and an undeclared name is
\* flagged once for each of its qualifying occurrences
C21_State ==
    /\ pc = "validateSemantics" => RefDeclaredNames \subseteq declaredVars
    /\ AnalyzeDone =>
           \A i \in 0..(Len(lines) - 1) :
               \A k \in 1..Len(RefIdentifiers(lines[i + 1])) :
                   LET word == RefIdentifiers(lines[i + 1])[k].word
                   IN  /\ word \in RefDeclaredNames => WarningsNaming(i, word) = <<>>
                       /\ word \notin RefDeclaredNames =>
                              Len(WarningsNaming(i, word)) = Len(QualifyingUses(i, word))

\* C21: the declared-identifier set is fixed before any usage is scanned and
\* is not extended by the scan: a name declared by var or bound by foreach
\* anywhere in the document is flagged at none of its occurrences, earlier
\* lines and lines outside the declaring block included, and an undeclared
\* name is flagged at every qualifying occurrence.
C21_DeclaredSetIsFixed == [][C21_Step]_vars /\ []C21_State

\* i is used on the line before its foreach and is not flagged; q is flagged
\* at both of its occurrences on that line
C21_Witness ==
    /\ AnalyzeDone
    /\ Len(lines) >= 2
    /\ lines[1] = "z = i + q + q"
    /\ lines[2] = "foreach i in xs do"
    /\ WarningsNaming(0, "i") = <<>>
    /\ Len(WarningsNaming(0, "q")) = 2

-----------------------------------------------------------------------------
(* C22 *)

WellFormed(d) ==
    /\ d.source = "jyro"
    /\ d.range.start.line = d.range.end.line
    /\ d.range.start.line \in 0..(Len(lines) - 1)
    /\ 0 <= d.range.start.character
    /\ d.range.start.character <= d.range.end.character
    /\ d.range.end.character <= Len(lines[d.range.start.line + 1])

\* C22: every diagnostic analyze() returns, for any document and either value
\* of warnOnHostFunctions, has source jyro, starts and ends on one line that
\* is a line of the document, and has
\* 0 <= start.character <= end.character <= length of that line.
C22_DiagnosticsWellFormed ==
    returned.call = "analyze" =>
        \A n \in 1..Len(returned.value) : WellFormed(returned.value[n])

\* an analysis has returned Errors, a Warning and an Information note
C22_Witness ==
    /\ returned.call = "analyze"
    /\ \E a, b, c, e \in 1..Len(returned.value) :
           /\ IsUnclosedString(returned.value[a])
           /\ IsUnknownType(returned.value[b])
           /\ returned.value[c].severity = "Information"
           /\ returned.value[e].severity = "Warning"

====
